---- MODULE Spec2Model ----
(***************************************************************************)
(* humanlog: the JSON handler (JSONHandler) that normalises one structured *)
(* log line into Level/Time/Message/Fields and renders it, suppressing     *)
(* fields unchanged from the previously rendered line.                      *)
(*                                                                         *)
(* Strings are sequences of one-character strings, compared byte-wise by   *)
(* their position in Charset, which lists the characters in ASCII order.   *)
(* A JSON number is the pair ip + fp * 10^-7 with ip = floor(v) and        *)
(* 0 <= fp < 10^7; the inputs stay on values a float64 represents to that  *)
(* resolution.                                                             *)
(***************************************************************************)
EXTENDS Integers, Sequences, FiniteSets, TLC

VARIABLES Level, Time, Message, Fields, last, Opts, call, hist

vars == <<Level, Time, Message, Fields, last, Opts, call, hist>>

-----------------------------------------------------------------------------
(* Strings and their byte order *)

\* Terminal escape sequences written by rgbterm are single marks here: each
\* starts with the ESC byte, which sorts below every printable character.
Upper == << "A", "B", "C", "D", "E", "F", "G", "H", "I", "J", "K", "L", "M",
           "N", "O", "P", "Q", "R", "S", "T", "U", "V", "W", "X", "Y", "Z" >>

Lower == << "a", "b", "c", "d", "e", "f", "g", "h", "i", "j", "k", "l", "m",
           "n", "o", "p", "q", "r", "s", "t", "u", "v", "w", "x", "y", "z" >>

Charset ==
  << "ESC[key", "ESC[val", "ESC[0m",
     "\"", "+", "-", ".",
     "0", "1", "2", "3", "4", "5", "6", "7", "8", "9",
     "<", "=", ">", "?" >>
  \o Upper \o << "\\" >> \o Lower

Ord == [c \in {Charset[i] : i \in 1..Len(Charset)} |->
          CHOOSE i \in 1..Len(Charset) : Charset[i] = c]

EmptyString == <<>>

StrLess(a, b) ==
  \E i \in 1..(Len(a) + 1) :
     /\ i <= Len(b)
     /\ \A j \in 1..(i - 1) : a[j] = b[j]
     /\ (i = Len(a) + 1 \/ Ord[a[i]] < Ord[b[i]])

Prefix(s, n) == SubSeq(s, 1, n)

EmptyMap == << >>

Has(m, k) == k \in DOMAIN m

Delete(m, k) == [x \in (DOMAIN m) \ {k} |-> m[x]]

-----------------------------------------------------------------------------
(* fmt verbs used to pre-render field values *)

DigitChars == <<"0", "1", "2", "3", "4", "5", "6", "7", "8", "9">>

RECURSIVE NatDigits(_)
NatDigits(n) ==
  IF n < 10 THEN <<n>> ELSE Append(NatDigits(n \div 10), n % 10)

DigitString(ds) == [i \in 1..Len(ds) |-> DigitChars[ds[i] + 1]]

\* fmt.Sprintf("%d", n)
FormatD(n) ==
  IF n < 0 THEN <<"-">> \o DigitString(NatDigits(-n))
           ELSE DigitString(NatDigits(n))

\* 1e-6 and 1e9 in units of the number grid
Epsilon == 10
Billion == 1000000000
FracUnits == 10 * 1000 * 1000

RECURSIVE Pow10(_)
Pow10(n) == IF n = 0 THEN 1 ELSE 10 * Pow10(n - 1)

RECURSIVE Zeros(_)
Zeros(n) == IF n <= 0 THEN <<>> ELSE <<0>> \o Zeros(n - 1)

RECURSIVE DropLeadingZeros(_)
DropLeadingZeros(ds) ==
  IF ds # <<>> /\ ds[1] = 0 THEN DropLeadingZeros(Tail(ds)) ELSE ds

RECURSIVE DropTrailingZeros(_)
DropTrailingZeros(ds) ==
  IF ds # <<>> /\ ds[Len(ds)] = 0
    THEN DropTrailingZeros(SubSeq(ds, 1, Len(ds) - 1))
    ELSE ds

\* The decimal digits of |v| and the position of the decimal point
\* (strconv's decimalSlice: digits d, count nd, point dp).
Decimal(v) ==
  LET neg == v.ip < 0
      I   == IF ~neg THEN v.ip ELSE IF v.fp = 0 THEN -v.ip ELSE -v.ip - 1
      F   == IF ~neg \/ v.fp = 0 THEN v.fp ELSE FracUnits - v.fp
      int == IF I = 0 THEN <<>> ELSE NatDigits(I)
      fr  == [i \in 1..7 |-> (F \div Pow10(7 - i)) % 10]
      all == int \o fr
      sig == DropLeadingZeros(all)
  IN  [neg |-> neg,
       d   |-> DropTrailingZeros(sig),
       dp  |-> Len(int) - (Len(all) - Len(sig))]

\* strconv %e with the shortest digits: d[.ddd]e(+|-)dd
FormatE(dec) ==
  LET exp  == dec.dp - 1
      aexp == IF exp < 0 THEN -exp ELSE exp
      mant == <<DigitChars[dec.d[1] + 1]>>
              \o (IF Len(dec.d) > 1
                    THEN <<".">> \o DigitString(SubSeq(dec.d, 2, Len(dec.d)))
                    ELSE <<>>)
  IN  mant \o <<"e", IF exp < 0 THEN "-" ELSE "+">>
           \o (IF aexp < 10 THEN <<"0">> ELSE <<>>)
           \o DigitString(NatDigits(aexp))

\* strconv %f with the shortest digits
FormatF(dec) ==
  LET nd   == Len(dec.d)
      int  == IF dec.dp > 0
                THEN DigitString(SubSeq(dec.d, 1, IF nd < dec.dp THEN nd ELSE dec.dp)
                                 \o Zeros(dec.dp - nd))
                ELSE <<"0">>
      frac == IF nd > dec.dp
                THEN <<".">> \o DigitString(Zeros(-dec.dp)
                                 \o SubSeq(dec.d, (IF dec.dp > 0 THEN dec.dp ELSE 0) + 1, nd))
                ELSE <<>>
  IN  int \o frac

\* fmt.Sprintf("%g", v): %e when the exponent is < -4 or >= 6, else %f
FormatG(v) ==
  LET dec == Decimal(v)
      exp == dec.dp - 1
  IN  IF dec.d = <<>> THEN <<"0">>
      ELSE (IF dec.neg THEN <<"-">> ELSE <<>>)
           \o (IF exp < -4 \/ exp >= 6 THEN FormatE(dec) ELSE FormatF(dec))

\* fmt.Sprintf("%q", s): the string in double quotes, quote and backslash escaped
RECURSIVE Escape(_)
Escape(s) ==
  IF s = <<>> THEN <<>>
  ELSE (IF s[1] \in {"\"", "\\"} THEN <<"\\", s[1]>> ELSE <<s[1]>>) \o Escape(Tail(s))

FormatQ(s) == <<"\"">> \o Escape(s) \o <<"\"">>

\* fmt.Sprintf("%v", v) of the remaining JSON values: bool and null
FormatV(v) ==
  IF v.t = "bool"
    THEN (IF v.b THEN <<"t", "r", "u", "e">> ELSE <<"f", "a", "l", "s", "e">>)
    ELSE <<"<", "n", "i", "l", ">">>

-----------------------------------------------------------------------------
(* Decoded JSON values and raw lines *)

Str(s)      == [t |-> "string", s |-> s, ip |-> 0, fp |-> 0, b |-> FALSE]
Num(ip, fp) == [t |-> "float64", s |-> <<>>, ip |-> ip, fp |-> fp, b |-> FALSE]
Bool(b)     == [t |-> "bool", s |-> <<>>, ip |-> 0, fp |-> 0, b |-> b]
Null        == [t |-> "nil", s |-> <<>>, ip |-> 0, fp |-> 0, b |-> FALSE]

\* raw[k].(T): the comma-ok type assertion on a map read
Is(raw, k, type) == Has(raw, k) /\ raw[k].t = type

kTime    == <<"t", "i", "m", "e">>
kTs      == <<"t", "s">>
kMsg     == <<"m", "s", "g">>
kMessage == <<"m", "e", "s", "s", "a", "g", "e">>
kLevel   == <<"l", "e", "v", "e", "l">>
kLvl     == <<"l", "v", "l">>

\* An object literal from its key/value pairs
Obj(pairs) ==
  [k \in {pairs[i][1] : i \in 1..Len(pairs)} |->
     pairs[CHOOSE i \in 1..Len(pairs) : pairs[i][1] = k][2]]

\* A raw line: whether its bytes contain `"time":` or `"ts":`, whether
\* json.Unmarshal accepts it, and the object it decodes to.
Line(marker, valid, pairs) ==
  [marker |-> marker, valid |-> valid, obj |-> Obj(pairs)]

NoLine == Line(FALSE, FALSE, <<>>)

ZeroTime == [zero |-> TRUE, sec |-> 0, nsec |-> 0]

Unix(sec, nsec) == [zero |-> FALSE, sec |-> sec, nsec |-> nsec]

\* The timestamp strings the model uses and the instants the known layouts
\* give them; any other string matches no layout.
KnownTimes ==
  Obj(<< <<<<"T", "1">>, Unix(1, 0)>>, <<<<"T", "2">>, Unix(2, 0)>> >>)

tryParseTime(value) ==
  IF Has(KnownTimes, value) THEN [t |-> KnownTimes[value], ok |-> TRUE]
                            ELSE [t |-> ZeroTime, ok |-> FALSE]

\* int64(f), rounding toward zero
Int64(v) == IF v.ip >= 0 \/ v.fp = 0 THEN v.ip ELSE v.ip + 1

\* time.Unix(int64(f), int64((f-float64(int64(f)))*1000000000))
UnixFloat(v) ==
  Unix(Int64(v),
       IF v.ip >= 0 \/ v.fp = 0 THEN v.fp * 100 ELSE (v.fp - FracUnits) * 100)

-----------------------------------------------------------------------------
(* JSONHandler *)

Handler == [Level |-> Level, Time |-> Time, Message |-> Message,
            Fields |-> Fields, last |-> last]

Becomes(h) ==
  /\ Level' = h.Level
  /\ Time' = h.Time
  /\ Message' = h.Message
  /\ Fields' = h.Fields
  /\ last' = h.last

\* Fault: clear that forgets to move Fields into last
clear_keepsLast(h) ==
  [Level |-> EmptyString, Time |-> ZeroTime, Message |-> EmptyString,
   last |-> h.last, Fields |-> EmptyMap]

clear(h) ==
  [Level |-> EmptyString, Time |-> ZeroTime, Message |-> EmptyString,
   last |-> h.Fields, Fields |-> EmptyMap]

\* The type switch that pre-renders one field value
RenderValue(v) ==
  IF v.t = "float64"
    THEN IF v.fp < Epsilon /\ v.ip < Billion
           THEN FormatD(Int64(v))
           ELSE FormatG(v)
    ELSE IF v.t = "string" THEN FormatQ(v.s)
    ELSE FormatV(v)

Unknown == <<"?", "?", "?", "?">>

UnmarshalJSON(h, data) ==
  IF ~data.valid THEN [err |-> TRUE, h |-> h]
  ELSE
    LET raw0    == data.obj
        timeOk  == Is(raw0, kTime, "string")
        tsOk    == ~timeOk /\ Is(raw0, kTs, "string")
        ok      == timeOk \/ tsOk
        timeStr == IF timeOk THEN raw0[kTime].s
                   ELSE IF tsOk THEN raw0[kTs].s ELSE EmptyString
        raw1    == IF timeOk THEN Delete(raw0, kTime)
                   ELSE IF tsOk THEN Delete(raw0, kTs) ELSE raw0
        parsed  == tryParseTime(timeStr)
    IN
    IF ok /\ ~parsed.ok THEN [err |-> TRUE, h |-> [h EXCEPT !.Time = parsed.t]]
    ELSE
      LET iOk     == ~ok /\ Is(raw1, kTs, "int64")
          fOk     == ~ok /\ ~iOk /\ Is(raw1, kTs, "float64")
          time    == IF ok THEN parsed.t
                     ELSE IF iOk THEN Unix(raw1[kTs].ip, 0)
                     ELSE IF fOk THEN UnixFloat(raw1[kTs])
                     ELSE h.Time
          raw2    == IF iOk \/ fOk THEN Delete(raw1, kTs) ELSE raw1
          msgOk   == Is(raw2, kMsg, "string")
          mesOk   == ~msgOk /\ Is(raw2, kMessage, "string")
          message == IF msgOk THEN raw2[kMsg].s
                     ELSE IF mesOk THEN raw2[kMessage].s ELSE EmptyString
          raw3    == IF msgOk THEN Delete(raw2, kMsg)
                     ELSE IF mesOk THEN Delete(raw2, kMessage) ELSE raw2
          levelOk == Is(raw3, kLevel, "string")
          lvlOk   == ~levelOk /\ Is(raw3, kLvl, "string")
          level   == IF levelOk THEN raw3[kLevel].s
                     ELSE IF lvlOk THEN raw3[kLvl].s ELSE Unknown
          raw4    == IF levelOk THEN Delete(raw3, kLevel) ELSE Delete(raw3, kLvl)
          fields  == [k \in (DOMAIN h.Fields) \cup (DOMAIN raw4) |->
                        IF Has(raw4, k) THEN RenderValue(raw4[k]) ELSE h.Fields[k]]
      IN  [err |-> FALSE,
           h   |-> [h EXCEPT !.Time = time, !.Message = message,
                             !.Level = level, !.Fields = fields]]

-----------------------------------------------------------------------------
(* Rendering *)

\* rgbterm.FgString / BgString: the text between a colour mark and a reset
FgString(s, colour) == <<colour>> \o s \o <<"ESC[0m">>

KeyRGB == "ESC[key"
ValRGB == "ESC[val"

shouldShowKey(opts, k) == k \notin opts.hidden

shouldShowUnchanged(opts, k) == k \in opts.forced

imin(a, b) == IF a < b THEN a ELSE b

ToUpper(s) ==
  [i \in 1..Len(s) |->
     IF \E j \in 1..Len(Lower) : Lower[j] = s[i]
       THEN Upper[CHOOSE j \in 1..Len(Lower) : Lower[j] = s[i]]
       ELSE s[i]]

\* sort.Strings
RECURSIVE SortStrings(_)
SortStrings(kv) ==
  IF kv = <<>> THEN <<>>
  ELSE LET rest == SortStrings(Tail(kv))
           x    == Head(kv)
           n    == Cardinality({i \in 1..Len(rest) : StrLess(rest[i], x)})
       IN  SubSeq(rest, 1, n) \o <<x>> \o SubSeq(rest, n + 1, Len(rest))

\* sort.Stable(byLongest(kv)), with byLongest.Less(i, j) = len(s[i]) < len(s[j])
RECURSIVE SortStableByLongest(_)
SortStableByLongest(kv) ==
  IF kv = <<>> THEN <<>>
  ELSE LET rest == SortStableByLongest(Tail(kv))
           x    == Head(kv)
           n    == Cardinality({i \in 1..Len(rest) : Len(rest[i]) < Len(x)})
       IN  SubSeq(rest, 1, n) \o <<x>> \o SubSeq(rest, n + 1, Len(rest))

Ellipsis == <<".", ".", ".">>

\* Fault: the limit compared with >= instead of >
Truncate_offByOne(opts, v) ==
  IF opts.Truncates /\ Len(v) >= opts.TruncateLength
    THEN Prefix(v, opts.TruncateLength) \o Ellipsis
    ELSE v

Truncate(opts, v) ==
  IF opts.Truncates /\ Len(v) > opts.TruncateLength
    THEN Prefix(v, opts.TruncateLength) \o Ellipsis
    ELSE v

Token(opts, k, v, sep) ==
  FgString(k, KeyRGB) \o sep \o FgString(Truncate(opts, v), ValRGB)

\* Fault: a key of last is skipped without comparing the values
Skips_ignoresValue(h, opts, skipUnchanged, k) ==
  \/ ~shouldShowKey(opts, k)
  \/ /\ skipUnchanged
     /\ Has(h.last, k)
     /\ ~shouldShowUnchanged(opts, k)

\* The loop's continue conditions for key k
Skips(h, opts, skipUnchanged, k) ==
  \/ ~shouldShowKey(opts, k)
  \/ /\ skipUnchanged
     /\ Has(h.last, k)
     /\ h.last[k] = h.Fields[k]
     /\ ~shouldShowUnchanged(opts, k)

\* Fault: the lexicographic sort left out
joinKVs_unsorted(h, opts, skipUnchanged, sep, order) ==
  LET keys == SelectSeq(order, LAMBDA k : ~Skips(h, opts, skipUnchanged, k))
      kv   == [i \in 1..Len(keys) |-> Token(opts, keys[i], h.Fields[keys[i]], sep)]
  IN  IF opts.SortLongest THEN SortStableByLongest(kv) ELSE kv

\* order is the order in which range visits the keys of h.Fields
joinKVs(h, opts, skipUnchanged, sep, order) ==
  LET keys   == SelectSeq(order, LAMBDA k : ~Skips(h, opts, skipUnchanged, k))
      kv     == [i \in 1..Len(keys) |-> Token(opts, keys[i], h.Fields[keys[i]], sep)]
      sorted == SortStrings(kv)
  IN  IF opts.SortLongest THEN SortStableByLongest(sorted) ELSE sorted

LevelColour(level) ==
  CASE level = <<"d", "e", "b", "u", "g">> -> "ESC[fg:221,28,119"
    [] level = <<"i", "n", "f", "o">> -> "ESC[fg:20,172,190"
    [] level = <<"w", "a", "r", "n">> -> "ESC[fg:255,245,32"
    [] level = <<"w", "a", "r", "n", "i", "n", "g">> -> "ESC[fg:255,245,32"
    [] level = <<"e", "r", "r", "o", "r">> -> "ESC[fg:255,0,0"
    [] level = <<"f", "a", "t", "a", "l">> -> "ESC[bg:255,0,0"
    [] level = <<"p", "a", "n", "i", "c">> -> "ESC[bg:255,0,0"
    [] OTHER -> "ESC[fg:221,28,119"

NoMsg == <<"<", "n", "o", " ", "m", "s", "g", ">">>

NoOutput == [time |-> ZeroTime, level |-> <<>>, msg |-> <<>>, kvs |-> <<>>]

\* What Prettify writes: time, level block, message and field tokens, in order
Rendered(h, opts, skipUnchanged, order) ==
  LET msg == IF h.Message = EmptyString THEN FgString(NoMsg, "ESC[fg:190,190,190")
             ELSE IF opts.LightBg THEN FgString(h.Message, "ESC[fg:0,0,0")
             ELSE FgString(h.Message, "ESC[fg:255,255,255")
      lvl == Prefix(ToUpper(h.Level), imin(4, Len(h.Level)))
  IN  [time  |-> h.Time,
       level |-> FgString(lvl, LevelColour(h.Level)),
       msg   |-> msg,
       kvs   |-> joinKVs(h, opts, skipUnchanged, <<"=">>, order)]

\* Fault: Prettify without the deferred clear
Prettify_noClear(h, opts, skipUnchanged, order) ==
  [out |-> Rendered(h, opts, skipUnchanged, order), h |-> h]

\* The bytes returned and the handler after the deferred clear
Prettify(h, opts, skipUnchanged, order) ==
  [out |-> Rendered(h, opts, skipUnchanged, order), h |-> clear(h)]

\* Fault: a failed parse leaves the handler as UnmarshalJSON left it
TryHandle_noClear(h, d) ==
  IF ~d.marker THEN [ok |-> FALSE, h |-> h]
  ELSE LET r == UnmarshalJSON(h, d)
       IN  [ok |-> ~r.err, h |-> r.h]

\* Fault: the marker probe left out
TryHandle_noProbe(h, d) ==
  LET r == UnmarshalJSON(h, d)
  IN  IF r.err THEN [ok |-> FALSE, h |-> clear(r.h)]
               ELSE [ok |-> TRUE, h |-> r.h]

TryHandle(h, d) ==
  IF ~d.marker THEN [ok |-> FALSE, h |-> h]
  ELSE LET r == UnmarshalJSON(h, d)
       IN  IF r.err THEN [ok |-> FALSE, h |-> clear(r.h)]
                    ELSE [ok |-> TRUE, h |-> r.h]

-----------------------------------------------------------------------------
(* Calls on one handler *)

Orders(S) ==
  {o \in [1..Cardinality(S) -> S] : \A i, j \in 1..Cardinality(S) : o[i] = o[j] => i = j}

NoCalls == [calls |-> 0, failed |-> FALSE, accepted |-> FALSE]

Capped(n) == IF n < 2 THEN n + 1 ELSE 2

CallTryHandle(d) ==
  LET r == TryHandle(Handler, d)
  IN  /\ Becomes(r.h)
      /\ call' = [op |-> "TryHandle", d |-> d, ok |-> r.ok, skipUnchanged |-> FALSE,
                  empty |-> Fields = EmptyMap, out |-> NoOutput]
      /\ hist' = [hist EXCEPT !.since =
                    [calls    |-> Capped(@.calls),
                     failed   |-> @.failed \/ (d.marker /\ ~r.ok),
                     accepted |-> r.ok]]
      /\ UNCHANGED Opts

CallPrettify(skipUnchanged) ==
  \E order \in Orders(DOMAIN Fields) :
    LET r == Prettify(Handler, Opts, skipUnchanged, order)
    IN  /\ Becomes(r.h)
        /\ call' = [op |-> "Prettify", d |-> NoLine, ok |-> TRUE,
                    skipUnchanged |-> skipUnchanged, empty |-> Fields = EmptyMap,
                    out |-> r.out]
        /\ hist' = [n |-> Capped(hist.n), rendered |-> Fields,
                    between |-> hist.since, since |-> NoCalls]
        /\ UNCHANGED Opts

InitWith(options) ==
  /\ Level = EmptyString
  /\ Time = ZeroTime
  /\ Message = EmptyString
  /\ Fields = EmptyMap
  /\ last = EmptyMap
  /\ Opts \in options
  /\ call = [op |-> "new", d |-> NoLine, ok |-> FALSE, skipUnchanged |-> FALSE,
             empty |-> TRUE, out |-> NoOutput]
  /\ hist = [n |-> 0, rendered |-> EmptyMap,
             between |-> NoCalls, since |-> NoCalls]

-----------------------------------------------------------------------------
(* Inputs *)

kEnv == <<"e", "n", "v">>
kN   == <<"n">>

Info    == Str(<<"i", "n", "f", "o">>)
Warning == Str(<<"w", "a", "r", "n", "i", "n", "g">>)
Prod    == Str(<<"p", "r", "o", "d">>)
Dev     == Str(<<"d", "e", "v">>)
Up      == Str(<<"u", "p">>)

\* Lines of every kind the handler distinguishes: accepted lines with shared
\* and differing fields (a string time, a float ts with the short level
\* key), a timestamp no layout matches, undecodable bytes that carry the
\* marker, a line without the marker, and a line with the marker whose time
\* is null and whose lvl is a number.
Lines ==
  << Line(TRUE, TRUE, << <<kTime, Str(<<"T", "1">>)>>, <<kLevel, Info>>,
                         <<kMsg, Up>>, <<kEnv, Prod>> >>),
     Line(TRUE, TRUE, << <<kTs, Num(1, 5000000)>>, <<kLvl, Warning>>,
                         <<kEnv, Prod>>, <<kN, Num(3, 0)>> >>),
     Line(TRUE, TRUE, << <<kTs, Str(<<"b", "o", "g", "u", "s">>)>>, <<kLevel, Info>>,
                         <<kMsg, Up>>, <<kEnv, Dev>>, <<kN, Num(4, 0)>> >>),
     Line(TRUE, FALSE, << >>),
     Line(FALSE, TRUE, << <<kTs, Num(1, 0)>>, <<kLevel, Info>>, <<kEnv, Dev>> >>),
     Line(TRUE, TRUE, << <<kTime, Null>>, <<kLvl, Num(3, 0)>>, <<kMessage, Up>>,
                         <<kEnv, Dev>> >>) >>

Options ==
  { [Truncates |-> FALSE, TruncateLength |-> 15, SortLongest |-> TRUE,
     LightBg |-> FALSE, hidden |-> {}, forced |-> {}],
    [Truncates |-> FALSE, TruncateLength |-> 15, SortLongest |-> TRUE,
     LightBg |-> FALSE, hidden |-> {kN}, forced |-> {kEnv}] }

Init == InitWith(Options)

Next ==
  \/ \E i \in 1..Len(Lines) : CallTryHandle(Lines[i])
  \/ \E skipUnchanged \in BOOLEAN : CallPrettify(skipUnchanged)

Spec == Init /\ [][Next]_vars

\* The scanner's discipline: Prettify is called exactly when TryHandle
\* has just returned true.
Accepted == call.op = "TryHandle" /\ call.ok

NextPairs ==
  \/ ~Accepted /\ \E i \in 1..Len(Lines) : CallTryHandle(Lines[i])
  \/ Accepted /\ \E skipUnchanged \in BOOLEAN : CallPrettify(skipUnchanged)

SpecPairs == Init /\ [][NextPairs]_vars

-----------------------------------------------------------------------------
(* Numeric fields: one line per number of a grid around the thresholds *)

MaxWhole == 1

kX == <<"x">>

\* Fractions on both sides of 1e-6 and of 1 - 1e-6, and one half
Fractions == {0, 1, 9, 11, 5000000, 9999989, 9999991, 9999999}

\* Around 1e9 a float64 resolves about 1e-7, so the large numbers are whole
\* or end in one half.
Numbers ==
  {Num(ip, fp) : ip \in (-MaxWhole)..MaxWhole, fp \in Fractions}
  \cup {Num(ip, fp) : ip \in {-2 * Billion, -Billion, Billion - 1, Billion, 2 * Billion},
                      fp \in {0, 5000000}}

NumLines == {Line(TRUE, TRUE, << <<kTs, Num(1, 0)>>, <<kX, v>> >>) : v \in Numbers}

NextNum ==
  \/ \E d \in NumLines : CallTryHandle(d)
  \/ CallPrettify(FALSE)

SpecNum == Init /\ [][NextNum]_vars

-----------------------------------------------------------------------------
(* Token order and truncation: fields whose tokens differ in length *)

MaxTruncate == 3

kA  == <<"a">>
kAb == <<"a", "b">>
kB  == <<"b">>
kC  == <<"c">>

JoinLines ==
  << Line(TRUE, TRUE, << <<kTs, Num(1, 0)>>, <<kA, Num(333, 0)>>, <<kAb, Num(1, 0)>>,
                         <<kB, Num(1, 0)>>, <<kC, Num(22, 0)>> >>),
     Line(TRUE, TRUE, << <<kTs, Num(1, 0)>>, <<kA, Str(<<"x", "y", "z">>)>>,
                         <<kB, Num(4444, 0)>>, <<kC, Bool(TRUE)>> >>) >>

JoinOptions ==
  [Truncates : BOOLEAN, TruncateLength : 0..MaxTruncate, SortLongest : BOOLEAN,
   LightBg : {TRUE}, hidden : {{}}, forced : {{}}]

InitJoin == InitWith(JoinOptions)

NextJoin ==
  \/ \E i \in 1..Len(JoinLines) : CallTryHandle(JoinLines[i])
  \/ \E skipUnchanged \in BOOLEAN : CallPrettify(skipUnchanged)

SpecJoin == InitJoin /\ [][NextJoin]_vars

-----------------------------------------------------------------------------
(* Reading a token back: colour mark, key, reset, "=", colour mark, value, reset *)

TokenKeyEnd(tok) ==
  CHOOSE p \in 1..Len(tok) :
    tok[p] = "ESC[0m" /\ \A q \in 1..(p - 1) : tok[q] # "ESC[0m"

TokenKey(tok) == SubSeq(tok, 2, TokenKeyEnd(tok) - 1)

TokenValue(tok) == SubSeq(tok, TokenKeyEnd(tok) + 3, Len(tok) - 1)

HasTokenFor(kvs, k) == \E i \in 1..Len(kvs) : TokenKey(kvs[i]) = k

Visible(k) == shouldShowKey(Opts, k) /\ ~shouldShowUnchanged(Opts, k)

RecordEmpty ==
  /\ Level = EmptyString
  /\ Time = ZeroTime
  /\ Message = EmptyString
  /\ Fields = EmptyMap

-----------------------------------------------------------------------------
(* Claims *)

\* C1: with skipUnchanged, when line N was accepted and rendered and the next
\* TryHandle call accepted line N+1, rendering N+1 shows a token for a key
\* that is shown and not forced exactly when line N's field map did not hold
\* the key with the same pre-rendered value.
C1_SkipUnchanged ==
  [][(/\ call'.op = "Prettify"
      /\ call'.skipUnchanged
      /\ hist.n >= 1
      /\ hist.between.accepted
      /\ hist.since.calls = 1
      /\ hist.since.accepted)
     => \A k \in DOMAIN Fields :
          Visible(k) =>
            (HasTokenFor(call'.out.kvs, k)
               <=> ~(Has(hist.rendered, k) /\ hist.rendered[k] = Fields[k]))]_vars

\* C1 witness: line N+1 was rendered with skipUnchanged right after line N, and
\* a shown, unforced key of its field map has no token.
C1_Witness ==
  /\ call.op = "Prettify"
  /\ call.skipUnchanged
  /\ hist.n = 2
  /\ hist.between.calls = 1
  /\ hist.between.accepted
  /\ \E k \in DOMAIN hist.rendered : Visible(k) /\ ~HasTokenFor(call.out.kvs, k)

\* C2: after every Prettify call, last is the field map just rendered and the
\* current record is empty.
C2_RotateAndReset ==
  call.op = "Prettify" => last = hist.rendered /\ RecordEmpty

\* C2 witness: a record with zero fields was rendered with skipUnchanged false
\* after an earlier rendering.
C2_Witness ==
  /\ call.op = "Prettify"
  /\ ~call.skipUnchanged
  /\ call.empty
  /\ hist.n = 2
  /\ last = EmptyMap

\* C3: when a line passes the marker probe and fails to parse, TryHandle
\* returns false and the current record holds nothing: Level, Time, Message and
\* Fields are empty; into an empty record, last stays empty too.
C3_AllOrNothing ==
  (call.op = "TryHandle" /\ call.d.marker /\ ~call.ok)
    => RecordEmpty /\ (call.empty => last = EmptyMap)

\* C3 witness: a decodable line whose timestamp string matches no layout was
\* rejected while an accepted line was still unrendered.
C3_Witness ==
  /\ call.op = "TryHandle"
  /\ call.d.marker
  /\ call.d.valid
  /\ ~call.ok
  /\ ~call.empty
  /\ hist.since.calls = 2

\* C4: when Prettify is called exactly after each accepted line, at the start of
\* every Prettify call last is the field map of the previously rendered record,
\* or empty when nothing was rendered yet or a line that passed the probe failed
\* to parse since then.
C4_DiffState ==
  [][call'.op = "Prettify"
     => last = IF hist.n = 0 \/ hist.since.failed THEN EmptyMap ELSE hist.rendered]_vars

\* C4 witness: after a failed parse since the previous rendering, a line was
\* rendered with skipUnchanged and every shown key of it has a token.
C4_Witness ==
  /\ call.op = "Prettify"
  /\ call.skipUnchanged
  /\ hist.n = 2
  /\ hist.between.failed
  /\ \E k \in DOMAIN hist.rendered : Visible(k)
  /\ \A k \in DOMAIN hist.rendered : Visible(k) => HasTokenFor(call.out.kvs, k)

\* C5: a line without the marker is rejected and the call changes nothing of
\* the handler: Level, Time, Message, Fields and last.
C5_ProbeMiss ==
  [][(call'.op = "TryHandle" /\ ~call'.d.marker)
     => ~call'.ok /\ UNCHANGED <<Level, Time, Message, Fields, last>>]_vars

\* C5 witness: a decodable line without the marker was rejected between an
\* accepted, rendered line and the next one, with the diff state not empty.
C5_Witness ==
  /\ call.op = "TryHandle"
  /\ ~call.d.marker
  /\ call.d.valid
  /\ hist.n >= 1
  /\ last # EmptyMap

\* The key the claim counts as consumed for the timestamp, message and level
ConsumedKeys(obj) ==
  (IF Is(obj, kTime, "string") THEN {kTime}
   ELSE IF Is(obj, kTs, "string") \/ Is(obj, kTs, "float64") THEN {kTs} ELSE {})
  \cup (IF Is(obj, kMsg, "string") THEN {kMsg}
        ELSE IF Is(obj, kMessage, "string") THEN {kMessage} ELSE {})
  \cup (IF Is(obj, kLevel, "string") THEN {kLevel}
        ELSE IF Is(obj, kLvl, "string") THEN {kLvl} ELSE {})

\* C6: after normalising an object into an empty record, the keys of Fields are
\* the object's keys minus those consumed as timestamp, message and level.
C6_FieldKeys ==
  (call.op = "TryHandle" /\ call.ok /\ call.empty)
    => DOMAIN Fields = (DOMAIN call.d.obj) \ ConsumedKeys(call.d.obj)

NearInteger(v) == v.fp < Epsilon \/ v.fp > FracUnits - Epsilon

Round(v) == IF 2 * v.fp > FracUnits \/ (2 * v.fp = FracUnits /\ v.ip >= 0)
              THEN v.ip + 1 ELSE v.ip

MagnitudeBelowBillion(v) ==
  v.ip < Billion /\ (v.ip > -Billion \/ (v.ip = -Billion /\ v.fp > 0))

\* C7: a numeric field within 1e-6 of an integer and of magnitude below 1e9 is
\* rendered as the decimal string of the rounded value; any other numeric field
\* is rendered in the float form and not as a plain integer.
C7_NumberRendering ==
  (call.op = "TryHandle" /\ call.ok /\ Is(call.d.obj, kX, "float64"))
    => LET v == call.d.obj[kX]
       IN  IF NearInteger(v) /\ MagnitudeBelowBillion(v)
             THEN Fields[kX] = FormatD(Round(v))
             ELSE Fields[kX] = FormatG(v) /\ Fields[kX] # FormatD(Round(v))

Ascending(kvs) ==
  \A i, j \in 1..Len(kvs) : i < j => StrLess(kvs[i], kvs[j])

AscendingByLength(kvs) ==
  \A i, j \in 1..Len(kvs) :
    i < j => \/ Len(kvs[i]) < Len(kvs[j])
             \/ Len(kvs[i]) = Len(kvs[j]) /\ StrLess(kvs[i], kvs[j])

\* C8: the tokens joinKVs returns are in ascending lexicographic order without
\* SortLongest, and with it in ascending order of length, equal lengths in
\* lexicographic order; every iteration order of Fields gives that sequence.
C8_TokenOrder ==
  [][call'.op = "Prettify"
     => /\ IF Opts.SortLongest THEN AscendingByLength(call'.out.kvs)
                               ELSE Ascending(call'.out.kvs)
        /\ \A o \in Orders(DOMAIN Fields) :
             joinKVs(Handler, Opts, call'.skipUnchanged, <<"=">>, o) = call'.out.kvs]_vars

\* C8 witness: with SortLongest, four tokens were returned of which two have
\* the same length and a longer token sorts lexicographically before a shorter.
C8_Witness ==
  /\ call.op = "Prettify"
  /\ Opts.SortLongest
  /\ Len(call.out.kvs) = 4
  /\ \E i, j \in 1..4 : i < j /\ Len(call.out.kvs[i]) = Len(call.out.kvs[j])
  /\ \E i, j \in 1..4 : i < j /\ StrLess(call.out.kvs[j], call.out.kvs[i])

\* The value the claim expects to see for the pre-rendered value v
Displayed(v) ==
  IF Opts.Truncates /\ Len(v) > Opts.TruncateLength
    THEN [i \in 1..(Opts.TruncateLength + 3) |->
            IF i <= Opts.TruncateLength THEN v[i] ELSE "."]
    ELSE v

\* C9: with truncation on and limit L, a value longer than L is shown as its
\* first L characters followed by "..." and a value of length at most L is
\* shown unchanged; with truncation off every value is shown unchanged.
C9_Truncation ==
  call.op = "Prettify"
    => /\ \A i \in 1..Len(call.out.kvs) :
            /\ Has(hist.rendered, TokenKey(call.out.kvs[i]))
            /\ TokenValue(call.out.kvs[i])
                 = Displayed(hist.rendered[TokenKey(call.out.kvs[i])])
       /\ ~call.skipUnchanged
            => \A k \in DOMAIN hist.rendered : HasTokenFor(call.out.kvs, k)

\* C9 witness: with truncation on, one rendered line shows a value cut to the
\* limit and a value of exactly the limit's length unchanged.
C9_Witness ==
  /\ call.op = "Prettify"
  /\ Opts.Truncates
  /\ \E k \in DOMAIN hist.rendered :
       /\ Len(hist.rendered[k]) > Opts.TruncateLength
       /\ HasTokenFor(call.out.kvs, k)
  /\ \E k \in DOMAIN hist.rendered :
       /\ Len(hist.rendered[k]) = Opts.TruncateLength
       /\ HasTokenFor(call.out.kvs, k)

====
